---- MODULE Spec2Model ----
(***************************************************************************)
(* Layers (Docker layer explorer): the zustand store useLayersStore and    *)
(* the component handlers that drive it, as a state machine.               *)
(*                                                                         *)
(* Every store action is one atomic step up to its first `await`; every    *)
(* backend call it issues is a record in `inflight` holding the request    *)
(* and the variables the continuation closes over; the resolution or       *)
(* rejection of a call is a separate step that runs the continuation up to *)
(* the next `await`.  Calls may be answered in any order, so `inflight`    *)
(* is a bag.                                                               *)
(***************************************************************************)
EXTENDS Integers, Sequences, FiniteSets, Bags, TLC

(***************************************************************************)
(* Bounds of the model.                                                    *)
(***************************************************************************)
NumLayers == 3         \* layers of an image: layer_1 .. layer_NumLayers
MaxCompareCalls == 1   \* compare_layers calls awaiting an answer at one time
MaxExportCalls == 2    \* exportSingleLayer calls running at one time
MaxFetchCalls == 1     \* get_docker_images calls awaiting an answer at one time
MaxExtractCalls == 2   \* extract_directory calls awaiting an answer at one time
MaxFiles == 4          \* longest entry list an extraction is merged into
MaxListeners == 2      \* image selections running or still listening
MaxReadCalls == 2      \* read_layer_file calls in flight
MaxTreeFiles == 3      \* entries of a listing the file tree is built from

(***************************************************************************)
(* Values.                                                                 *)
(***************************************************************************)
\* null of a string-typed field
Null == "null"
\* null of an object-typed field
NullObj == [null |-> TRUE]
\* null of a number-typed field
NullNum == -1
\* null / empty layer identifier
NullId == <<>>

\* The sidebar's identifier of the n-th listed layer: `layer_${n}`, kept as
\* its two parts, the prefix and the number that parseInt reads back.
LayerId(n) == <<"layer_", n>>
LayerIds == {LayerId(n) : n \in 1..NumLayers}
\* The generic identifier getLayerFiles is called with.
CurrentLayer == <<"current_layer">>

\* layerId.startsWith("layer_") ? parseInt(layerId.substring(6), 10) : null
LayerNumber(layerId) ==
    IF Len(layerId) = 2 /\ layerId[1] = "layer_" THEN layerId[2] ELSE NullNum

\* A value a backend call rejects with: a string, or something else.
StringError == [isString |-> TRUE, text |-> "backend error"]
OtherError == [isString |-> FALSE, text |-> "[object Object]"]
Errors == {StringError, OtherError}
\* typeof error === "string" ? error : fallback
ErrorText(e, fallback) == IF e.isString THEN e.text ELSE fallback

\* Text shown in the viewer: a string is the sequence of the pieces it was
\* put together from, "" is the empty sequence.
EmptyText == <<>>
Text(piece) == <<piece>>
Contains(text, pattern) == \E i \in 1..Len(text) : text[i] = pattern

\* A path is the sequence of its characters, so that String.startsWith is
\* computed and not assumed.
StartsWith(s, prefix) ==
    /\ Len(prefix) <= Len(s)
    /\ SubSeq(s, 1, Len(prefix)) = prefix
\* path + "/" + name
Child(dir, name) == dir \o <<"/", name>>
\* The paths of the model: two lazily loaded top-level directories /a and
\* /c, the top-level file /ab, whose path has /a as a string prefix without
\* lying under it, and the file b inside a directory.
PathA == <<"/", "a">>
PathAB == <<"/", "a", "b">>
PathC == <<"/", "c">>
Dirs == {PathA, PathC}

\* FileItem (name and depth are left out: name is the last segment of path,
\* depth is not read).  `layer` is history: the layer the backend listed
\* the entry for.
FileItem(path, isDir, size, needsLoading, layer) ==
    [path |-> path, is_dir |-> isDir, size |-> size,
     needs_loading |-> needsLoading, layer |-> layer]
DirItem(path, layer) == FileItem(path, TRUE, 0, TRUE, layer)

\* JavaScript array indexing, 1-based here: undefined past the end.
At(s, i) == IF i \in 1..Len(s) THEN s[i] ELSE NullId
Includes(s, x) == \E i \in 1..Len(s) : s[i] = x

(***************************************************************************)
(* State: the fields of LayersState, the pending backend calls, and the    *)
(* component-local state of the views.                                     *)
(***************************************************************************)
VARIABLES
    dockerImage, selectedImageId, availableImages, isLoadingImages,
    selectedLayerId, selectedLayerNumber, selectedLayerFiles,
    isLoadingLayerFiles, loadingDirectories,
    selectedFile, selectedFileContent, isLoadingFileContent,
    isLoading, error, taskStatus,
    isComparisonMode, selectedLayersForComparison, isComparing,
    comparisonResult,
    listeners,          \* number of task_status listeners registered
    expandedFolders,    \* LayerFiles: useState<Set<string>>
    lastToast,          \* the latest sonner toast shown
    renderedLayerId,    \* LayerFiles: the selectedLayerId its effect last ran for
    fileTree,           \* LayerFiles: useState<TreeNode[]>
    filteredFileTree,   \* LayerFiles: useState<TreeNode[]>
    searchQuery,        \* LayerFiles: useState("")
    builtFiles,         \* LayerFiles: the selectedLayerFiles its effect last ran for
    backendLayer,       \* the layer the backend holds as "current_layer"
    inflight,           \* bag of the backend calls awaiting their answer
    last                \* history: the step taken last and its argument

imageVars == <<dockerImage, selectedImageId, availableImages, isLoadingImages>>
layerVars == <<selectedLayerId, selectedLayerNumber, selectedLayerFiles,
               isLoadingLayerFiles, loadingDirectories>>
fileVars == <<selectedFile, selectedFileContent, isLoadingFileContent>>
statusVars == <<isLoading, error, taskStatus>>
cmpVars == <<isComparisonMode, selectedLayersForComparison, isComparing,
             comparisonResult>>
treeVars == <<fileTree, filteredFileTree, searchQuery, builtFiles>>
viewVars == <<listeners, expandedFolders, lastToast, renderedLayerId,
             treeVars>>
vars == <<imageVars, layerVars, fileVars, statusVars, cmpVars, viewVars,
          backendLayer, inflight, last>>

Did(op, arg) == last' = [op |-> op, arg |-> arg]

\* the pending calls of one backend command, and how many they are
Pending(cmd) == {c \in BagToSet(inflight) : c.cmd = cmd}
NumPending(cmd) == BagCardinality([c \in Pending(cmd) |-> inflight[c]])
\* invoke(...): one more pending call
Invoked(call) == inflight (+) SetToBag({call})
\* the call is answered
Answered(call) == inflight (-) SetToBag({call})


Init ==
    /\ dockerImage = NullObj
    /\ selectedImageId = Null
    /\ availableImages = <<>>
    /\ isLoadingImages = FALSE
    /\ selectedLayerId = NullId
    /\ selectedLayerNumber = NullNum
    /\ selectedLayerFiles = <<>>
    /\ isLoadingLayerFiles = FALSE
    /\ loadingDirectories = {}
    /\ selectedFile = NullObj
    /\ selectedFileContent = EmptyText
    /\ isLoadingFileContent = FALSE
    /\ isLoading = FALSE
    /\ error = Null
    /\ taskStatus = NullObj
    /\ isComparisonMode = FALSE
    /\ selectedLayersForComparison = <<>>
    /\ isComparing = FALSE
    /\ comparisonResult = NullObj
    /\ listeners = 0
    /\ expandedFolders = {}
    /\ lastToast = Null
    /\ renderedLayerId = NullId
    /\ fileTree = <<>>
    /\ filteredFileTree = <<>>
    /\ searchQuery = <<>>
    /\ builtFiles = <<>>
    /\ backendLayer = NullId
    /\ inflight = EmptyBag
    /\ last = [op |-> "init", arg |-> NullId]

(***************************************************************************)
(* Comparison actions of the store.                                        *)
(***************************************************************************)
ValidationError == "Please select exactly 2 layers to compare"

\* What compare_layers answers: four lists of paths.  `pair` is history:
\* the two layers the answer was computed for.
DiffBodies ==
    { [added |-> <<>>, removed |-> <<>>, modified |-> <<>>,
       unchanged |-> <<"/etc/hosts">>],
      [added |-> <<"/app/main">>, removed |-> <<"/tmp/x">>,
       modified |-> <<"/etc/hosts">>, unchanged |-> <<>>] }
DiffFor(body, l1, l2) ==
    [added |-> body.added, removed |-> body.removed,
     modified |-> body.modified, unchanged |-> body.unchanged,
     pair |-> <<l1, l2>>]

toggleComparisonMode ==
    /\ isComparisonMode' = ~isComparisonMode
    /\ IF isComparisonMode
       THEN /\ selectedLayersForComparison' = <<>>
            /\ comparisonResult' = NullObj
       ELSE UNCHANGED <<selectedLayersForComparison, comparisonResult>>
    \* LayerFiles is rendered in normal mode only: leaving comparison mode
    \* mounts it again and its effect runs anew
    /\ renderedLayerId' = IF isComparisonMode THEN NullId ELSE renderedLayerId
    /\ IF isComparisonMode
       THEN /\ expandedFolders' = {}
            /\ fileTree' = <<>>
            /\ filteredFileTree' = <<>>
            /\ searchQuery' = <<>>
            /\ builtFiles' = <<>>
       ELSE UNCHANGED <<expandedFolders, treeVars>>
    /\ Did("toggleComparisonMode", NullId)
    /\ UNCHANGED <<imageVars, layerVars, fileVars, statusVars, isComparing,
                   listeners, lastToast, backendLayer, inflight>>

\* The selection addLayerForComparison leaves.
M_AppendAlways(selection, layerId) ==
    IF Includes(selection, layerId) THEN selection
    ELSE Append(selection, layerId)
M_AddsTwice(selection, layerId) ==
    IF Len(selection) < 2 THEN Append(selection, layerId)
    ELSE <<selection[2], layerId>>
M_EvictNewest(selection, layerId) ==
    IF Includes(selection, layerId) THEN selection
    ELSE IF Len(selection) < 2 THEN Append(selection, layerId)
    ELSE <<selection[1], layerId>>
AddedSelection(selection, layerId) ==
    IF Includes(selection, layerId) THEN selection
    ELSE IF Len(selection) < 2 THEN Append(selection, layerId)
    ELSE <<selection[2], layerId>>

addLayerForComparison(layerId) ==
    /\ selectedLayersForComparison' =
           AddedSelection(selectedLayersForComparison, layerId)
    /\ Did("addLayerForComparison",
           [layerId |-> layerId, had |-> Len(selectedLayersForComparison),
            dup |-> Includes(selectedLayersForComparison, layerId)])
    /\ UNCHANGED <<imageVars, layerVars, fileVars, statusVars,
                   isComparisonMode, isComparing, comparisonResult,
                   viewVars, backendLayer, inflight>>

removeLayerForComparison(layerId) ==
    /\ selectedLayersForComparison' =
           SelectSeq(selectedLayersForComparison, LAMBDA id : id # layerId)
    /\ Did("removeLayerForComparison", layerId)
    /\ UNCHANGED <<imageVars, layerVars, fileVars, statusVars,
                   isComparisonMode, isComparing, comparisonResult,
                   viewVars, backendLayer, inflight>>

clearLayersForComparison ==
    /\ selectedLayersForComparison' = <<>>
    /\ Did("clearLayersForComparison", NullId)
    /\ UNCHANGED <<imageVars, layerVars, fileVars, statusVars,
                   isComparisonMode, isComparing, comparisonResult,
                   viewVars, backendLayer, inflight>>

\* compareLayers' precondition check: selectedLayersForComparison.length !== 2
M_RejectsOnlyEmpty(selection) == Len(selection) = 0
CompareRejected(selection) == Len(selection) # 2

CompareCall(selection, viaHandler) ==
    [cmd |-> "compare_layers",
     layer1Id |-> At(selection, 1), layer2Id |-> At(selection, 2),
     viaHandler |-> viaHandler]

\* compareLayers up to its await; viaHandler: awaited by handleCompareLayers.
CompareLayersBegin(viaHandler) ==
    IF CompareRejected(selectedLayersForComparison)
    THEN /\ error' = ValidationError
         /\ UNCHANGED <<isComparing, inflight>>
    ELSE /\ NumPending("compare_layers") < MaxCompareCalls
         /\ isComparing' = TRUE
         /\ error' = Null
         /\ inflight' =
                Invoked(CompareCall(selectedLayersForComparison, viaHandler))

compareLayers ==
    /\ CompareLayersBegin(FALSE)
    /\ Did("compareLayers", NullId)
    /\ UNCHANGED <<imageVars, layerVars, fileVars, isLoading, taskStatus,
                   isComparisonMode, selectedLayersForComparison,
                   comparisonResult, viewVars, backendLayer>>

\* The sidebar's Compare button.
handleCompareLayers ==
    /\ IF Len(selectedLayersForComparison) # 2
       THEN /\ lastToast' = ValidationError
            /\ UNCHANGED <<error, isComparing, inflight>>
       ELSE /\ CompareLayersBegin(TRUE)
            /\ UNCHANGED lastToast
    /\ Did("handleCompareLayers", NullId)
    /\ UNCHANGED <<imageVars, layerVars, fileVars, isLoading, taskStatus,
                   isComparisonMode, selectedLayersForComparison,
                   comparisonResult, listeners, expandedFolders,
                   renderedLayerId, treeVars,
                   backendLayer>>

\* compare_layers answers the call with a diff.
compareLayersResolve(call, body) ==
    /\ call \in Pending("compare_layers")
    /\ comparisonResult' = DiffFor(body, call.layer1Id, call.layer2Id)
    /\ isComparing' = FALSE
    /\ lastToast' = IF call.viaHandler THEN "Comparison complete"
                    ELSE lastToast
    /\ inflight' = Answered(call)
    /\ Did("compareLayersResolve", body)
    /\ UNCHANGED <<imageVars, layerVars, fileVars, statusVars,
                   isComparisonMode, selectedLayersForComparison,
                   listeners, expandedFolders, renderedLayerId, treeVars,
                   backendLayer>>

\* comparisonResult once compare_layers has failed: the catch does not set it
M_FailureClearsResult(result) == NullObj
RejectedResult(result) == result

\* compare_layers fails the call.
compareLayersReject(call, e) ==
    /\ call \in Pending("compare_layers")
    /\ error' = ErrorText(e, "Failed to compare layers")
    /\ isComparing' = FALSE
    /\ comparisonResult' = RejectedResult(comparisonResult)
    /\ inflight' = Answered(call)
    /\ Did("compareLayersReject", NullId)
    /\ UNCHANGED <<imageVars, layerVars, fileVars, isLoading, taskStatus,
                   isComparisonMode, selectedLayersForComparison,
                   viewVars, backendLayer>>

(***************************************************************************)
(* Layer files: exportSingleLayer, getLayerFiles, extractDirectory.        *)
(***************************************************************************)
\* TaskStatus; progress in percent (0, 0.1 and 1.0 are 0, 10 and 100).
Status(message, progress, isComplete, err) ==
    [message |-> message, progress |-> progress, isComplete |-> isComplete,
     error |-> err]
\* the taskStatus a catch branch stores
M_FailedStatusWithoutError(message, e) == Status(message, 0, TRUE, Null)
FailedStatus(message, e) ==
    Status(message, 0, TRUE, ErrorText(e, "Unknown error"))

\* What the backend lists at the top of a layer.
RootListing(layer) ==
    <<DirItem(PathA, layer), FileItem(PathAB, FALSE, 1, FALSE, layer),
      DirItem(PathC, layer)>>
\* What export_single_layer and get_layer_files may answer for a layer.
LayerListings(layer) == {<<>>, RootListing(layer)}
\* The entries inside a directory of a layer: /a holds the file b, any
\* other directory is empty.
Children(dirPath, layer) ==
    IF dirPath = PathA
    THEN <<FileItem(Child(dirPath, "b"), FALSE, 1, FALSE, layer)>>
    ELSE <<>>
\* What extract_directory may answer for a directory: the entries inside
\* it, with or without the directory's own (now loaded) entry in front.
ExtractAnswers(dirPath, layer) ==
    { Children(dirPath, layer),
      <<FileItem(dirPath, TRUE, 0, FALSE, layer)>> \o Children(dirPath, layer) }
\* The layer a backend call with this layerId works on.
BackendLayerOf(layerId) ==
    IF layerId = CurrentLayer THEN backendLayer ELSE layerId

\* the exportSingleLayer calls that have not returned
NumExporting == NumPending("export_single_layer") + NumPending("get_layer_files")

\* getLayerFiles up to its await; `selected` is history: the layer whose
\* exportSingleLayer call made this one (NullId: none).
GetLayerFilesBegin(layerId, selected, pending) ==
    /\ isLoadingLayerFiles' = TRUE
    /\ selectedLayerId' = layerId
    /\ inflight' = pending (+) SetToBag({
           [cmd |-> "get_layer_files", layerId |-> CurrentLayer,
            selected |-> selected]})

\* exportSingleLayer up to its await
ExportSingleLayerBegin(layerId) ==
    IF layerId = NullId
    THEN UNCHANGED <<selectedLayerId, selectedLayerNumber, isLoading,
                     error, taskStatus, inflight>>
    ELSE /\ NumExporting < MaxExportCalls
         /\ selectedLayerId' = layerId
         /\ selectedLayerNumber' = LayerNumber(layerId)
         /\ isLoading' = TRUE
         /\ error' = Null
         /\ taskStatus' = Status("Exporting layer...", 0, FALSE, Null)
         /\ inflight' = Invoked(
                [cmd |-> "export_single_layer", layerId |-> layerId])

exportSingleLayer(layerId) ==
    /\ ExportSingleLayerBegin(layerId)
    /\ Did("exportSingleLayer", layerId)
    /\ UNCHANGED <<imageVars, selectedLayerFiles, isLoadingLayerFiles,
                   loadingDirectories, fileVars, cmpVars, viewVars,
                   backendLayer>>

\* export_single_layer answers: the files are stored and getLayerFiles
\* ("current_layer") runs up to its own await.
exportSingleLayerResolve(call, files) ==
    /\ call \in Pending("export_single_layer")
    /\ backendLayer' = call.layerId
    /\ selectedLayerFiles' = files
    /\ isLoading' = FALSE
    /\ taskStatus' = Status("Layer exported successfully", 100, TRUE, Null)
    /\ GetLayerFilesBegin(CurrentLayer, call.layerId, Answered(call))
    /\ Did("exportSingleLayerResolve", call.layerId)
    /\ UNCHANGED <<imageVars, selectedLayerNumber, loadingDirectories,
                   fileVars, error, cmpVars, viewVars>>

exportSingleLayerReject(call, e) ==
    /\ call \in Pending("export_single_layer")
    /\ error' = ErrorText(e, "Failed to export layer")
    /\ isLoading' = FALSE
    /\ taskStatus' = FailedStatus("Error exporting layer", e)
    /\ inflight' = Answered(call)
    /\ Did("exportSingleLayerReject", call.layerId)
    /\ UNCHANGED <<imageVars, layerVars, fileVars, cmpVars, viewVars,
                   backendLayer>>

\* getLayerFiles called on its own (the LayerFiles view does).
getLayerFiles(layerId) ==
    /\ NumExporting < MaxExportCalls
    /\ GetLayerFilesBegin(layerId, NullId, inflight)
    /\ Did("getLayerFiles", layerId)
    /\ UNCHANGED <<imageVars, selectedLayerNumber, selectedLayerFiles,
                   loadingDirectories, fileVars, statusVars, cmpVars,
                   viewVars, backendLayer>>

getLayerFilesResolve(call, files) ==
    /\ call \in Pending("get_layer_files")
    /\ selectedLayerFiles' = files
    /\ isLoadingLayerFiles' = FALSE
    /\ inflight' = Answered(call)
    /\ Did("getLayerFilesResolve", call.selected)
    /\ UNCHANGED <<imageVars, selectedLayerId, selectedLayerNumber,
                   loadingDirectories, fileVars, statusVars, cmpVars,
                   viewVars, backendLayer>>

getLayerFilesReject(call, e) ==
    /\ call \in Pending("get_layer_files")
    /\ selectedLayerFiles' = <<>>
    /\ isLoadingLayerFiles' = FALSE
    /\ error' = ErrorText(e, "Failed to get layer files")
    /\ inflight' = Answered(call)
    /\ Did("getLayerFilesReject", call.selected)
    /\ UNCHANGED <<imageVars, selectedLayerId, selectedLayerNumber,
                   loadingDirectories, fileVars, isLoading, taskStatus,
                   cmpVars, viewVars, backendLayer>>

\* The entries extractDirectory keeps of the list it read when it was
\* called: !file.path.startsWith(dirPath) || file.path === dirPath
KeptFiles(files, dirPath) ==
    SelectSeq(files,
              LAMBDA f : ~StartsWith(f.path, dirPath) \/ f.path = dirPath)
\* updatedFiles
MergedFiles(snapshot, dirPath, files) == KeptFiles(snapshot, dirPath) \o files

\* extractDirectory up to its await.
ExtractDirectoryBegin(dirPath) ==
    IF selectedLayerId = NullId
    THEN UNCHANGED <<loadingDirectories, inflight>>
    ELSE /\ NumPending("extract_directory") < MaxExtractCalls
         /\ loadingDirectories' = loadingDirectories \cup {dirPath}
         /\ inflight' = Invoked(
                [cmd |-> "extract_directory", dirPath |-> dirPath,
                 layerId |-> selectedLayerId,
                 snapshot |-> selectedLayerFiles])

extractDirectory(dirPath) ==
    /\ ExtractDirectoryBegin(dirPath)
    /\ Did("extractDirectory", dirPath)
    /\ UNCHANGED <<imageVars, selectedLayerId, selectedLayerNumber,
                   selectedLayerFiles, isLoadingLayerFiles, fileVars,
                   statusVars, cmpVars, viewVars, backendLayer>>

\* loadingDirectories once a call for dirPath has succeeded / failed
M_RejectKeepsLoading(loading, dirPath) == loading
M_ResolveKeepsLoading(loading, dirPath) == loading
ResolvedLoading(loading, dirPath) == loading \ {dirPath}
RejectedLoading(loading, dirPath) == loading \ {dirPath}

extractDirectoryResolve(call, files) ==
    /\ call \in Pending("extract_directory")
    /\ Len(MergedFiles(call.snapshot, call.dirPath, files)) <= MaxFiles
    /\ selectedLayerFiles' = MergedFiles(call.snapshot, call.dirPath, files)
    /\ loadingDirectories' = ResolvedLoading(loadingDirectories, call.dirPath)
    /\ inflight' = Answered(call)
    /\ Did("extractDirectoryResolve",
           [dirPath |-> call.dirPath, files |-> files])
    /\ UNCHANGED <<imageVars, selectedLayerId, selectedLayerNumber,
                   isLoadingLayerFiles, fileVars, statusVars, cmpVars,
                   viewVars, backendLayer>>

extractDirectoryReject(call, e) ==
    /\ call \in Pending("extract_directory")
    /\ error' = ErrorText(e, "Failed to extract directory")
    /\ loadingDirectories' = RejectedLoading(loadingDirectories, call.dirPath)
    /\ inflight' = Answered(call)
    /\ Did("extractDirectoryReject", [dirPath |-> call.dirPath])
    /\ UNCHANGED <<imageVars, selectedLayerId, selectedLayerNumber,
                   selectedLayerFiles, isLoadingLayerFiles, fileVars,
                   isLoading, taskStatus, cmpVars, viewVars, backendLayer>>

\* LayerFiles.toggleFolder: extract the folder before expanding it.
M_IgnoresLoading(folder) ==
    /\ folder.needs_loading
    /\ folder.path \notin expandedFolders
ShouldExtract(folder) ==
    /\ folder.needs_loading
    /\ folder.path \notin expandedFolders
    /\ folder.path \notin loadingDirectories

toggleFolder(folder) ==
    /\ IF ShouldExtract(folder)
       THEN ExtractDirectoryBegin(folder.path)
       ELSE UNCHANGED <<loadingDirectories, inflight>>
    /\ expandedFolders' =
           IF folder.path \in expandedFolders
           THEN expandedFolders \ {folder.path}
           ELSE expandedFolders \cup {folder.path}
    /\ Did("toggleFolder",
           [path |-> folder.path, needs_loading |-> folder.needs_loading,
            wasLoading |-> folder.path \in loadingDirectories])
    /\ UNCHANGED <<imageVars, selectedLayerId, selectedLayerNumber,
                   selectedLayerFiles, isLoadingLayerFiles, fileVars,
                   statusVars, cmpVars, listeners, lastToast,
                   renderedLayerId, treeVars, backendLayer>>

Range(s) == {s[i] : i \in DOMAIN s}

(***************************************************************************)
(* The file tree of LayerFiles: buildFileTree and the search filter.       *)
(* Strings are sequences of one-character strings.                         *)
(***************************************************************************)
\* s.toLowerCase(), for the letters the entries below use
LowerChar(c) == CASE c = "A" -> "a" [] c = "B" -> "b" [] c = "C" -> "c"
                  [] OTHER -> c
ToLower(s) == [i \in 1..Len(s) |-> LowerChar(s[i])]
\* s.includes(q)
IncludesText(s, q) ==
    \E i \in 0..(Len(s) - Len(q)) : SubSeq(s, i + 1, i + Len(q)) = q
\* s.trim()
RECURSIVE TrimStart(_)
TrimStart(s) ==
    IF s # <<>> /\ Head(s) = " " THEN TrimStart(Tail(s)) ELSE s
RECURSIVE TrimEnd(_)
TrimEnd(s) ==
    IF s # <<>> /\ s[Len(s)] = " " THEN TrimEnd(SubSeq(s, 1, Len(s) - 1))
    ELSE s
Trim(s) == TrimEnd(TrimStart(s))

\* path.split("/").filter(Boolean): `piece` is the part being read
RECURSIVE SplitFrom(_, _)
SplitFrom(s, piece) ==
    IF s = <<>>
    THEN IF piece = <<>> THEN <<>> ELSE <<piece>>
    ELSE IF Head(s) = "/"
         THEN (IF piece = <<>> THEN <<>> ELSE <<piece>>)
                  \o SplitFrom(Tail(s), <<>>)
         ELSE SplitFrom(Tail(s), Append(piece, Head(s)))
SplitPath(path) == SplitFrom(path, <<>>)
\* parts joined with "/": currentPath after the last of `parts`
RECURSIVE JoinParts(_)
JoinParts(parts) ==
    IF Len(parts) = 0 THEN <<>>
    ELSE IF Len(parts) = 1 THEN parts[1]
    ELSE JoinParts(SubSeq(parts, 1, Len(parts) - 1))
             \o <<"/">> \o parts[Len(parts)]

\* a.localeCompare(b) < 0, for names of letters: the letters decide, and
\* between names that differ in case only the lower case one comes first
LetterRank(c) == CASE LowerChar(c) = "a" -> 1 [] LowerChar(c) = "b" -> 2
                   [] LowerChar(c) = "c" -> 3 [] OTHER -> 0
RECURSIVE RankLess(_, _)
RankLess(a, b) ==
    IF b = <<>> THEN FALSE
    ELSE IF a = <<>> THEN TRUE
    ELSE IF LetterRank(Head(a)) # LetterRank(Head(b))
         THEN LetterRank(Head(a)) < LetterRank(Head(b))
    ELSE RankLess(Tail(a), Tail(b))
RECURSIVE CaseLess(_, _)
CaseLess(a, b) ==
    IF a = <<>> \/ b = <<>> THEN FALSE
    ELSE IF Head(a) # Head(b) THEN Head(a) = LowerChar(Head(a))
    ELSE CaseLess(Tail(a), Tail(b))
LocaleLess(a, b) ==
    \/ RankLess(a, b)
    \/ ~RankLess(b, a) /\ CaseLess(a, b)

Tmp == <<"t", "m", "p">>
Layers == <<"l", "a", "y", "e", "r", "s">>
RootSpecialFiles ==
    { <<"l", "a", "y", "e", "r", "_", "i", "n", "f", "o", ".", "t", "x", "t">>,
      <<"c", "o", "m", "m", "a", "n", "d", ".", "t", "x", "t">>,
      <<"f", "s", ".", "t", "a", "r">> }

\* relativePath: the parts after /tmp/layers/<layer>/fs
RelativePath(pathParts) ==
    IF Len(pathParts) > 3 /\ pathParts[1] = Tmp /\ pathParts[2] = Layers
    THEN SubSeq(pathParts, 5, Len(pathParts))
    ELSE pathParts
\* Skip special files at the root level
SkippedEntry(relativePath) ==
    \/ Len(relativePath) = 0
    \/ Len(relativePath) = 1 /\ relativePath[1] \in RootSpecialFiles

\* One TreeNode of buildFileTree, made for part i of a file's relativePath.
\* A node made for the last part is of type "file" whatever the entry's
\* is_dir says; children holds the ids of the nodes pushed to it.
TreeNode(file, relativePath, i) ==
    [id |-> JoinParts(SubSeq(relativePath, 1, i)),
     name |-> relativePath[i],
     path |-> file.path,
     type |-> IF i = Len(relativePath) THEN "file" ELSE "directory",
     size |-> IF i = Len(relativePath) THEN file.size ELSE NullNum,
     children |-> <<>>,
     isExpanded |-> FALSE,
     file |-> IF i = Len(relativePath) THEN file
              ELSE [file EXCEPT !.is_dir = TRUE]]
\* nodeMap and root before the first file
EmptyBuild == [nodeMap |-> [id \in {} |-> id], root |-> <<>>]
\* One turn of the loop over the parts: nothing if the node already exists,
\* otherwise the node is recorded and added to its parent or to the root.
AddPart(build, file, relativePath, i) ==
    LET currentPath == JoinParts(SubSeq(relativePath, 1, i))
        parentPath == JoinParts(SubSeq(relativePath, 1, i - 1))
        added == build.nodeMap @@
                     (currentPath :> TreeNode(file, relativePath, i))
    IN  IF currentPath \in DOMAIN build.nodeMap THEN build
        ELSE IF parentPath # <<>>
        THEN [nodeMap |->
                  IF parentPath \in DOMAIN build.nodeMap
                  THEN [added EXCEPT ![parentPath].children =
                                         Append(@, currentPath)]
                  ELSE added,
              root |-> build.root]
        ELSE [nodeMap |-> added, root |-> Append(build.root, currentPath)]
RECURSIVE AddParts(_, _, _, _)
AddParts(build, file, relativePath, i) ==
    IF i > Len(relativePath) THEN build
    ELSE AddParts(AddPart(build, file, relativePath, i),
                  file, relativePath, i + 1)
\* One turn of the loop over the files
AddFile(build, file) ==
    IF SkippedEntry(RelativePath(SplitPath(file.path))) THEN build
    ELSE AddParts(build, file, RelativePath(SplitPath(file.path)), 1)
RECURSIVE AddFiles(_, _)
AddFiles(build, files) ==
    IF files = <<>> THEN build
    ELSE AddFiles(AddFile(build, Head(files)), Tail(files))
\* The nodes of the given ids with their children nested in them
RECURSIVE NodesOf(_, _)
NodesOf(nodeMap, ids) ==
    [i \in 1..Len(ids) |->
        [nodeMap[ids[i]] EXCEPT !.children = NodesOf(nodeMap, @)]]

\* The comparator of sortNodes is negative
M_ComparesNamesOnly(a, b) == LocaleLess(a.name, b.name)
NodeLess(a, b) ==
    IF a.type = "directory" /\ b.type # "directory" THEN TRUE
    ELSE IF a.type # "directory" /\ b.type = "directory" THEN FALSE
    ELSE LocaleLess(a.name, b.name)
\* Array.prototype.sort, which is stable: each node goes in front of the
\* first node that compares greater than it
RECURSIVE Inserted(_, _)
Inserted(sorted, node) ==
    IF sorted = <<>> THEN <<node>>
    ELSE IF NodeLess(node, Head(sorted)) THEN <<node>> \o sorted
    ELSE <<Head(sorted)>> \o Inserted(Tail(sorted), node)
RECURSIVE Sorted(_)
Sorted(nodes) ==
    IF nodes = <<>> THEN <<>>
    ELSE Inserted(Sorted(SubSeq(nodes, 1, Len(nodes) - 1)),
                  nodes[Len(nodes)])
RECURSIVE sortNodes(_)
sortNodes(nodes) ==
    [i \in 1..Len(nodes) |->
        IF Len(Sorted(nodes)[i].children) > 0
        THEN [Sorted(nodes)[i] EXCEPT !.children = sortNodes(@)]
        ELSE Sorted(nodes)[i]]
buildFileTree(files) ==
    sortNodes(NodesOf(AddFiles(EmptyBuild, files).nodeMap,
                      AddFiles(EmptyBuild, files).root))

\* nameMatch || pathMatch
M_MatchesAnything(node, query) == TRUE
NodeMatches(node, query) ==
    \/ IncludesText(ToLower(node.name), query)
    \/ IncludesText(ToLower(node.path), query)
RECURSIVE searchNodes(_, _)
searchNodes(nodes, query) ==
    IF nodes = <<>> THEN <<>>
    ELSE IF NodeMatches(Head(nodes), query)
    THEN <<Head(nodes)>> \o searchNodes(Tail(nodes), query)
    ELSE IF /\ Len(Head(nodes).children) > 0
            /\ Len(searchNodes(Head(nodes).children, query)) > 0
    THEN <<[Head(nodes) EXCEPT
               !.children = searchNodes(Head(nodes).children, query),
               !.isExpanded = TRUE]>>
             \o searchNodes(Tail(nodes), query)
    ELSE searchNodes(Tail(nodes), query)
\* What the search effect shows for a tree and a query
Filtered(tree, query) ==
    IF Trim(query) = <<>> THEN tree ELSE searchNodes(tree, ToLower(query))
\* collectPaths: the paths of the directories with children
RECURSIVE collectPaths(_)
collectPaths(nodes) ==
    UNION { IF nodes[i].type = "directory" /\ Len(nodes[i].children) > 0
            THEN {nodes[i].path} \cup collectPaths(nodes[i].children)
            ELSE {} : i \in 1..Len(nodes) }

\* The store's setter of the flat listing.  LayerFiles is rendered after
\* every change of the listing and React runs the effects of one render
\* before the next: the listing changes again once the build effect has run.
setSelectedLayerFiles(files) ==
    /\ builtFiles = selectedLayerFiles
    /\ selectedLayerFiles' = files
    /\ Did("setSelectedLayerFiles", files)
    /\ UNCHANGED <<imageVars, selectedLayerId, selectedLayerNumber,
                   isLoadingLayerFiles, loadingDirectories, fileVars,
                   statusVars, cmpVars, viewVars, backendLayer, inflight>>
\* LayerFiles: "Build file tree when files change"
buildTreeEffect ==
    /\ selectedLayerFiles # builtFiles
    /\ builtFiles' = selectedLayerFiles
    /\ IF Len(selectedLayerFiles) > 0
       THEN /\ fileTree' = buildFileTree(selectedLayerFiles)
            /\ filteredFileTree' = buildFileTree(selectedLayerFiles)
       ELSE UNCHANGED <<fileTree, filteredFileTree>>
    /\ Did("buildTreeEffect", NullId)
    /\ UNCHANGED <<imageVars, layerVars, fileVars, statusVars, cmpVars,
                   listeners, expandedFolders, lastToast, renderedLayerId,
                   searchQuery, backendLayer, inflight>>
\* The search box: onChange and the clear buttons
setSearchQuery(query) ==
    /\ searchQuery' = query
    /\ Did("setSearchQuery", query)
    /\ UNCHANGED <<imageVars, layerVars, fileVars, statusVars, cmpVars,
                   listeners, expandedFolders, lastToast, renderedLayerId,
                   fileTree, filteredFileTree, builtFiles, backendLayer,
                   inflight>>
\* LayerFiles: "Filter file tree when search query changes".  The effect
\* runs after searchQuery, fileTree or expandedFolders has changed; a run
\* with nothing changed sets what is already there.
searchEffect ==
    /\ filteredFileTree' = Filtered(fileTree, searchQuery)
    /\ expandedFolders' =
           IF Trim(searchQuery) = <<>> THEN expandedFolders
           ELSE expandedFolders
                    \cup collectPaths(Filtered(fileTree, searchQuery))
    /\ Did("searchEffect", NullId)
    /\ UNCHANGED <<imageVars, layerVars, fileVars, statusVars, cmpVars,
                   listeners, lastToast, renderedLayerId, fileTree,
                   searchQuery, builtFiles, backendLayer, inflight>>

\* Entries a listing is made of: a file at the root and two files in the
\* directory b, one under the backend's /tmp/layers/<layer>/fs prefix.
TreeEntries ==
    { FileItem(<<"/", "a">>, FALSE, 1, FALSE, LayerId(1)),
      FileItem(<<"/", "b", "/", "c">>, FALSE, 1, FALSE, LayerId(1)),
      FileItem(<<"/", "t", "m", "p", "/", "l", "a", "y", "e", "r", "s", "/",
                 "l", "/", "f", "s", "/", "b", "/", "B">>,
               FALSE, 1, FALSE, LayerId(1)) }
\* Listings: entries in any order, none twice
TreeListings ==
    { files \in UNION { [1..n -> TreeEntries] : n \in 0..MaxTreeFiles } :
        \A i, j \in 1..Len(files) : files[i] = files[j] => i = j }
\* What is typed into the search box
TreeQueries == { <<>>, <<" ">>, <<"C">>, <<"c", "b">> }

NextTree ==
    \/ \E files \in TreeListings : setSelectedLayerFiles(files)
    \/ buildTreeEffect
    \/ \E query \in TreeQueries : setSearchQuery(query)
    \/ searchEffect

SpecTree == Init /\ [][NextTree]_vars

\* Entries of a listing that names a directory itself: the directory b and
\* two files in it.
ForestEntries ==
    { DirItem(<<"/", "b">>, LayerId(1)),
      FileItem(<<"/", "b", "/", "c">>, FALSE, 1, FALSE, LayerId(1)),
      FileItem(<<"/", "b", "/", "a">>, FALSE, 1, FALSE, LayerId(1)) }
ForestListings ==
    { files \in UNION { [1..n -> ForestEntries] : n \in 0..MaxTreeFiles } :
        \A i, j \in 1..Len(files) : files[i] = files[j] => i = j }

NextForest ==
    \/ \E files \in ForestListings : setSelectedLayerFiles(files)
    \/ buildTreeEffect
    \/ \E query \in TreeQueries : setSearchQuery(query)
    \/ searchEffect

SpecForest == Init /\ [][NextForest]_vars

(***************************************************************************)
(* The sidebar and the LayerFiles view: selecting a layer.                 *)
(***************************************************************************)
\* handleSelectLayer: if (isComparisonMode)
M_RoutesToExportAlways(mode) == FALSE
RoutesToComparison(mode) == mode

\* handleSelectLayer in comparison mode: remove the layer if it is selected,
\* add it otherwise
M_ToggleOnlyAdds(selection, layerId) == AddedSelection(selection, layerId)
ToggledSelection(selection, layerId) ==
    IF Includes(selection, layerId)
    THEN SelectSeq(selection, LAMBDA id : id # layerId)
    ELSE AddedSelection(selection, layerId)

handleSelectLayer(layerId) ==
    /\ IF RoutesToComparison(isComparisonMode)
       THEN /\ selectedLayersForComparison' =
                   ToggledSelection(selectedLayersForComparison, layerId)
            /\ UNCHANGED <<selectedLayerId, selectedLayerNumber, isLoading,
                           error, taskStatus, inflight>>
       ELSE \* setSelectedLayerId(layerId); exportSingleLayer(layerId)
            /\ IF layerId = NullId
               THEN /\ selectedLayerId' = layerId
                    /\ UNCHANGED <<selectedLayerNumber, isLoading, error,
                                   taskStatus, inflight>>
               ELSE ExportSingleLayerBegin(layerId)
            /\ UNCHANGED selectedLayersForComparison
    /\ Did("handleSelectLayer",
           [layerId |-> layerId, compare |-> isComparisonMode])
    /\ UNCHANGED <<imageVars, selectedLayerFiles, isLoadingLayerFiles,
                   loadingDirectories, fileVars, isComparisonMode,
                   isComparing, comparisonResult, viewVars, backendLayer>>

\* LayerFiles: the effect that runs when selectedLayerId has changed
layerFilesEffect ==
    /\ ~isComparisonMode
    /\ selectedLayerId # renderedLayerId
    /\ renderedLayerId' = selectedLayerId
    /\ IF selectedLayerId # NullId
       THEN /\ NumExporting < MaxExportCalls
            /\ GetLayerFilesBegin(CurrentLayer, NullId, inflight)
            /\ selectedFile' = NullObj
       ELSE UNCHANGED <<isLoadingLayerFiles, selectedLayerId, inflight,
                        selectedFile>>
    /\ Did("layerFilesEffect", NullId)
    /\ UNCHANGED <<imageVars, selectedLayerNumber, selectedLayerFiles,
                   loadingDirectories, selectedFileContent,
                   isLoadingFileContent, statusVars, cmpVars, listeners,
                   expandedFolders, lastToast, treeVars, backendLayer>>

NextSidebar ==
    \/ toggleComparisonMode
    \/ \E l \in LayerIds : handleSelectLayer(l)
    \/ layerFilesEffect
    \/ \E c \in Pending("export_single_layer") :
         \E f \in LayerListings(c.layerId) : exportSingleLayerResolve(c, f)
    \/ \E c \in Pending("export_single_layer"), e \in Errors :
           exportSingleLayerReject(c, e)
    \/ \E c \in Pending("get_layer_files") :
         \E f \in LayerListings(backendLayer) : getLayerFilesResolve(c, f)
    \/ \E c \in Pending("get_layer_files"), e \in Errors :
           getLayerFilesReject(c, e)

SpecSidebar == Init /\ [][NextSidebar]_vars

\* Layers are selected in either mode and every backend call succeeds.
NextSelect ==
    \/ toggleComparisonMode
    \/ \E l \in LayerIds : handleSelectLayer(l)
    \/ \E c \in Pending("export_single_layer") :
           exportSingleLayerResolve(c, RootListing(c.layerId))
    \/ \E c \in Pending("get_layer_files") :
           getLayerFilesResolve(c, RootListing(backendLayer))

SpecSelect == Init /\ [][NextSelect]_vars

(***************************************************************************)
(* Layer selection: overlapping exportSingleLayer calls.                   *)
(***************************************************************************)
NextLayer ==
    \/ \E l \in LayerIds : exportSingleLayer(l)
    \/ \E c \in Pending("export_single_layer") : \E f \in LayerListings(c.layerId) :
           exportSingleLayerResolve(c, f)
    \/ \E c \in Pending("export_single_layer"), e \in Errors :
           exportSingleLayerReject(c, e)
    \/ \E c \in Pending("get_layer_files") : \E f \in LayerListings(backendLayer) :
           getLayerFilesResolve(c, f)
    \/ \E c \in Pending("get_layer_files"), e \in Errors : getLayerFilesReject(c, e)

SpecLayer == Init /\ [][NextLayer]_vars

(***************************************************************************)
(* Extraction of directories of one exported layer, called on the store.   *)
(***************************************************************************)
\* The first layer is selected once and its listing arrives.
LayerLoading ==
    \/ /\ backendLayer = NullId
       /\ NumExporting = 0
       /\ exportSingleLayer(LayerId(1))
    \/ \E c \in Pending("export_single_layer") :
           exportSingleLayerResolve(c, RootListing(c.layerId))
    \/ \E c \in Pending("get_layer_files") :
           getLayerFilesResolve(c, RootListing(backendLayer))

ExtractAnswering ==
    \/ \E c \in Pending("extract_directory") :
         \E f \in ExtractAnswers(c.dirPath, BackendLayerOf(c.layerId)) :
           extractDirectoryResolve(c, f)
    \/ \E c \in Pending("extract_directory"), e \in Errors :
           extractDirectoryReject(c, e)

NextExtract ==
    \/ LayerLoading
    \/ \E d \in Dirs : extractDirectory(d)
    \/ ExtractAnswering

SpecExtract == Init /\ [][NextExtract]_vars

(***************************************************************************)
(* Extraction requested through the LayerFiles view.                       *)
(***************************************************************************)
NextFolder ==
    \/ LayerLoading
    \/ \E f \in Range(selectedLayerFiles) : toggleFolder(f)
    \/ ExtractAnswering

SpecFolder == Init /\ [][NextFolder]_vars

(***************************************************************************)
(* Extraction of a directory while layers are selected one after another.  *)
(***************************************************************************)
NextSwitch ==
    \/ \E l \in LayerIds : NumExporting = 0 /\ exportSingleLayer(l)
    \/ \E c \in Pending("export_single_layer") :
           exportSingleLayerResolve(c, RootListing(c.layerId))
    \/ \E c \in Pending("get_layer_files") :
           getLayerFilesResolve(c, RootListing(backendLayer))
    \/ extractDirectory(PathA)
    \/ \E c \in Pending("extract_directory") :
           extractDirectoryResolve(
               c, Children(c.dirPath, BackendLayerOf(c.layerId)))

SpecSwitch == Init /\ [][NextSwitch]_vars

(***************************************************************************)
(* File content: handleFileSelect and loadFileContent.                     *)
(***************************************************************************)
\* Entries of the first layer the user can click in the file tree.
ViewFiles ==
    { FileItem(PathAB, FALSE, 1, FALSE, LayerId(1)),
      FileItem(Child(PathA, "b"), FALSE, 1, FALSE, LayerId(1)),
      DirItem(PathA, LayerId(1)) }
\* What read_layer_file answers for a path.
FileText(path) == IF path = PathAB THEN "text of /ab" ELSE "text of /a/b"
\* Errors read_layer_file fails with.
TooLarge == [isString |-> TRUE, text |-> "File is too large to display"]
ReadErrors == {TooLarge, OtherError}

\* `Error reading file: ${error}`
M_PlaceholderWithoutError(e) == Text("Error reading file: ")
ErrorPlaceholder(e) == <<"Error reading file: ", e.text>>
\* selectedFileContent once read_layer_file has failed
M_StaleContent(content, e) == content
FailedContent(content, e) == ErrorPlaceholder(e)

\* loadFileContent up to its await
M_SkipsOnlyNull(file) == file = NullObj
\* if (!file) return; if (file.is_dir) return;
SkipsLoad(file) == file = NullObj \/ file.is_dir

LoadFileContentBegin(file) ==
    IF SkipsLoad(file)
    THEN UNCHANGED <<isLoadingFileContent, inflight>>
    ELSE /\ NumPending("read_layer_file") < MaxReadCalls
         /\ isLoadingFileContent' = TRUE
         /\ inflight' = Invoked(
                [cmd |-> "read_layer_file", filePath |-> file.path])

loadFileContent(file) ==
    /\ LoadFileContentBegin(file)
    /\ Did("loadFileContent", file)
    /\ UNCHANGED <<imageVars, layerVars, selectedFile, selectedFileContent,
                   statusVars, cmpVars, viewVars, backendLayer>>

\* LayerFiles.handleFileSelect
handleFileSelect(file) ==
    /\ selectedFile' = file
    /\ LoadFileContentBegin(file)
    /\ Did("handleFileSelect", file.path)
    /\ UNCHANGED <<imageVars, layerVars, selectedFileContent, statusVars,
                   cmpVars, viewVars, backendLayer>>

loadFileContentResolve(call, content) ==
    /\ call \in Pending("read_layer_file")
    /\ selectedFileContent' = content
    /\ isLoadingFileContent' = FALSE
    /\ inflight' = Answered(call)
    /\ Did("loadFileContentResolve", call.filePath)
    /\ UNCHANGED <<imageVars, layerVars, selectedFile, statusVars, cmpVars,
                   viewVars, backendLayer>>

loadFileContentReject(call, e) ==
    /\ call \in Pending("read_layer_file")
    /\ selectedFileContent' = FailedContent(selectedFileContent, e)
    /\ isLoadingFileContent' = FALSE
    /\ error' = ErrorText(e, "Failed to read file content")
    /\ inflight' = Answered(call)
    /\ Did("loadFileContentReject",
           [filePath |-> call.filePath, error |-> e,
            hadContent |-> selectedFileContent # EmptyText])
    /\ UNCHANGED <<imageVars, layerVars, selectedFile, isLoading, taskStatus,
                   cmpVars, viewVars, backendLayer>>

NextFile ==
    \/ \E f \in ViewFiles : handleFileSelect(f)
    \/ \E f \in ViewFiles \cup {NullObj} : loadFileContent(f)
    \/ \E c \in Pending("read_layer_file") :
           loadFileContentResolve(c, Text(FileText(c.filePath)))
    \/ \E c \in Pending("read_layer_file"), e \in ReadErrors :
           loadFileContentReject(c, e)

SpecFile == Init /\ [][NextFile]_vars

(***************************************************************************)
(* Image selection: selectImageAndProcessLayers.                           *)
(***************************************************************************)
ImageIds == {"img-1", "img-2"}
\* DockerImageInfo: the image and the ids of its layers
ImageInfo(imageId, n) ==
    [id |-> imageId, layers |-> [i \in 1..n |-> LayerId(i)]]
ImageInfos(imageId) == {ImageInfo(imageId, 0), ImageInfo(imageId, NumLayers)}
\* task_status events the backend emits
TaskEvents ==
    { Status("Exporting layers", 50, FALSE, Null),
      Status("Export complete", 100, TRUE, Null) }

\* selectImageAndProcessLayers calls that have not returned
NumSelecting ==
    NumPending("retag_image_for_layers") + NumPending("listen")
        + NumPending("export_image_layers")

selectImageAndProcessLayers(imageId) ==
    /\ IF imageId = Null
       THEN UNCHANGED <<selectedImageId, selectedLayerId, selectedLayerNumber,
                        selectedLayerFiles, fileVars, statusVars, inflight>>
       ELSE /\ NumSelecting + listeners < MaxListeners
            /\ selectedLayerId' = NullId
            /\ selectedLayerNumber' = NullNum
            /\ selectedLayerFiles' = <<>>
            /\ selectedFile' = NullObj
            /\ selectedFileContent' = EmptyText
            /\ isLoading' = TRUE
            /\ error' = Null
            /\ selectedImageId' = imageId
            /\ taskStatus' = Status("Tagging image with 'layers' tag...", 10,
                                    FALSE, Null)
            /\ inflight' = Invoked(
                   [cmd |-> "retag_image_for_layers", imageId |-> imageId])
            /\ UNCHANGED isLoadingFileContent
    /\ Did("selectImageAndProcessLayers", imageId)
    /\ UNCHANGED <<dockerImage, availableImages, isLoadingImages,
                   isLoadingLayerFiles, loadingDirectories, cmpVars,
                   viewVars, backendLayer>>

\* the image is tagged: the task_status listener is being registered
retagImageResolve(call) ==
    /\ call \in Pending("retag_image_for_layers")
    /\ inflight' = Answered(call) (+) SetToBag({
           [cmd |-> "listen", imageId |-> call.imageId]})
    /\ Did("retagImageResolve", call.imageId)
    /\ UNCHANGED <<imageVars, layerVars, fileVars, statusVars, cmpVars,
                   viewVars, backendLayer>>

\* the calls in flight once the retag has failed: the catch returns
M_ListensAfterFailedRetag(call) ==
    Answered(call) (+) SetToBag({[cmd |-> "listen", imageId |-> call.imageId]})
AfterFailedRetag(call) == Answered(call)

retagImageReject(call, e) ==
    /\ call \in Pending("retag_image_for_layers")
    /\ error' = ErrorText(e, "Failed to tag image")
    /\ isLoading' = FALSE
    /\ taskStatus' = FailedStatus("Error tagging image", e)
    /\ inflight' = AfterFailedRetag(call)
    /\ Did("retagImageReject", call.imageId)
    /\ UNCHANGED <<imageVars, layerVars, fileVars, cmpVars, viewVars,
                   backendLayer>>

\* the listener is registered: export_image_layers is invoked
listenResolve(call) ==
    /\ call \in Pending("listen")
    /\ listeners' = listeners + 1
    /\ inflight' = Answered(call) (+) SetToBag({
           [cmd |-> "export_image_layers", imageId |-> call.imageId]})
    /\ Did("listenResolve", call.imageId)
    /\ UNCHANGED <<imageVars, layerVars, fileVars, statusVars, cmpVars,
                   expandedFolders, lastToast, renderedLayerId, treeVars,
                   backendLayer>>

\* the outer catch of selectImageAndProcessLayers
listenReject(call, e) ==
    /\ call \in Pending("listen")
    /\ error' = ErrorText(e, "Failed to process image layers")
    /\ isLoading' = FALSE
    /\ taskStatus' = FailedStatus("Error processing image layers", e)
    /\ inflight' = Answered(call)
    /\ Did("listenReject", call.imageId)
    /\ UNCHANGED <<imageVars, layerVars, fileVars, cmpVars, viewVars,
                   backendLayer>>

\* a task_status event reaches every registered listener; each stores the
\* payload and removes itself when the payload is complete
taskStatusEvent(payload) ==
    /\ listeners > 0
    /\ taskStatus' = payload
    /\ listeners' = IF payload.isComplete THEN 0 ELSE listeners
    /\ Did("taskStatusEvent", payload.isComplete)
    /\ UNCHANGED <<imageVars, layerVars, fileVars, isLoading, error, cmpVars,
                   expandedFolders, lastToast, renderedLayerId, treeVars,
                   backendLayer, inflight>>

exportImageLayersResolve(call, imageInfo) ==
    /\ call \in Pending("export_image_layers")
    /\ dockerImage' = imageInfo
    /\ isLoading' = FALSE
    /\ taskStatus' = Status("Layer processing completed successfully", 100,
                            TRUE, Null)
    /\ inflight' = Answered(call)
    /\ Did("exportImageLayersResolve", imageInfo)
    /\ UNCHANGED <<selectedImageId, availableImages, isLoadingImages,
                   layerVars, fileVars, error, cmpVars, viewVars,
                   backendLayer>>

exportImageLayersReject(call, e) ==
    /\ call \in Pending("export_image_layers")
    /\ error' = ErrorText(e, "Failed to export image layers")
    /\ isLoading' = FALSE
    /\ taskStatus' = FailedStatus("Error exporting image layers", e)
    /\ inflight' = Answered(call)
    /\ Did("exportImageLayersReject", call.imageId)
    /\ UNCHANGED <<imageVars, layerVars, fileVars, cmpVars, viewVars,
                   backendLayer>>

\* DockerImage entries get_docker_images answers with
ImageList == [i \in 1..2 |-> [id |-> IF i = 1 THEN "img-1" ELSE "img-2"]]

fetchAvailableImages ==
    /\ NumPending("get_docker_images") < MaxFetchCalls
    /\ isLoadingImages' = TRUE
    /\ error' = Null
    /\ inflight' = Invoked([cmd |-> "get_docker_images"])
    /\ Did("fetchAvailableImages", NullId)
    /\ UNCHANGED <<dockerImage, selectedImageId, availableImages, layerVars,
                   fileVars, isLoading, taskStatus, cmpVars, viewVars,
                   backendLayer>>

fetchAvailableImagesResolve(call, images) ==
    /\ call \in Pending("get_docker_images")
    /\ availableImages' = images
    /\ isLoadingImages' = FALSE
    /\ inflight' = Answered(call)
    /\ Did("fetchAvailableImagesResolve", NullId)
    /\ UNCHANGED <<dockerImage, selectedImageId, layerVars, fileVars,
                   statusVars, cmpVars, viewVars, backendLayer>>

fetchAvailableImagesReject(call, e) ==
    /\ call \in Pending("get_docker_images")
    /\ error' = ErrorText(e, "Failed to fetch Docker images")
    /\ isLoadingImages' = FALSE
    /\ inflight' = Answered(call)
    /\ Did("fetchAvailableImagesReject", NullId)
    /\ UNCHANGED <<dockerImage, selectedImageId, availableImages, layerVars,
                   fileVars, isLoading, taskStatus, cmpVars, viewVars,
                   backendLayer>>

\* Images are selected and processed.
NextImageFlow ==
    \/ \E i \in ImageIds \cup {Null} : selectImageAndProcessLayers(i)
    \/ \E c \in Pending("retag_image_for_layers") : retagImageResolve(c)
    \/ \E c \in Pending("retag_image_for_layers"), e \in Errors :
           retagImageReject(c, e)
    \/ \E c \in Pending("listen") : listenResolve(c)
    \/ \E c \in Pending("listen"), e \in Errors : listenReject(c, e)
    \/ \E payload \in TaskEvents : taskStatusEvent(payload)
    \/ \E c \in Pending("export_image_layers") :
         \E info \in ImageInfos(c.imageId) : exportImageLayersResolve(c, info)
    \/ \E c \in Pending("export_image_layers"), e \in Errors :
           exportImageLayersReject(c, e)

SpecImageFlow == Init /\ [][NextImageFlow]_vars

\* An image is selected and processed while a layer of the previous image
\* is open and layers are picked for comparison.
NextImage ==
    \/ NextImageFlow
    \/ LayerLoading
    \/ \E l \in LayerIds : addLayerForComparison(l)

SpecImage == Init /\ [][NextImage]_vars

(***************************************************************************)
(* Every operation of the store, with one input and one failure each.      *)
(***************************************************************************)
\* What the user can start from the screen: images are picked from the
\* fetched list, layers from the image's layer list, folders and files from
\* the listing shown.
QuietStarting ==
    \/ fetchAvailableImages
    \/ \E i \in Range(availableImages) :
           i.id = "img-1" /\ selectImageAndProcessLayers(i.id)
    \/ /\ dockerImage # NullObj
       /\ \E l \in Range(dockerImage.layers) :
              l = LayerId(1) /\ exportSingleLayer(l)
    \/ \E f \in Range(selectedLayerFiles) :
           IF f.is_dir THEN extractDirectory(f.path) ELSE loadFileContent(f)
    \/ \E l \in {LayerId(1), LayerId(2)} :
           /\ Len(selectedLayersForComparison) = LayerNumber(l) - 1
           /\ addLayerForComparison(l)
    \/ compareLayers

QuietSucceeding ==
    \/ \E c \in Pending("get_docker_images") :
           fetchAvailableImagesResolve(c, ImageList)
    \/ \E c \in Pending("retag_image_for_layers") : retagImageResolve(c)
    \/ \E c \in Pending("listen") : listenResolve(c)
    \/ \E c \in Pending("export_image_layers") :
           exportImageLayersResolve(c, ImageInfo(c.imageId, NumLayers))
    \/ \E c \in Pending("export_single_layer") :
           exportSingleLayerResolve(c, RootListing(c.layerId))
    \/ \E c \in Pending("get_layer_files") :
           getLayerFilesResolve(c, RootListing(backendLayer))
    \/ \E c \in Pending("extract_directory") :
           extractDirectoryResolve(
               c, Children(c.dirPath, BackendLayerOf(c.layerId)))
    \/ \E c \in Pending("read_layer_file") :
           loadFileContentResolve(c, Text(FileText(c.filePath)))
    \/ \E c \in Pending("compare_layers"), b \in DiffBodies :
           b.added # <<>> /\ compareLayersResolve(c, b)

QuietFailing ==
    \/ \E c \in Pending("get_docker_images") :
           fetchAvailableImagesReject(c, StringError)
    \/ \E c \in Pending("retag_image_for_layers") :
           retagImageReject(c, StringError)
    \/ \E c \in Pending("listen") : listenReject(c, StringError)
    \/ \E c \in Pending("export_image_layers") :
           exportImageLayersReject(c, StringError)
    \/ \E c \in Pending("export_single_layer") :
           exportSingleLayerReject(c, StringError)
    \/ \E c \in Pending("get_layer_files") :
           getLayerFilesReject(c, StringError)
    \/ \E c \in Pending("extract_directory") :
           extractDirectoryReject(c, StringError)
    \/ \E c \in Pending("read_layer_file") :
           loadFileContentReject(c, StringError)
    \/ \E c \in Pending("compare_layers") :
           compareLayersReject(c, StringError)

\* An operation is started while at most one backend call is unanswered, so
\* every two calls of the store overlap in every order.
NextQuiet ==
    \/ BagCardinality(inflight) <= 1 /\ QuietStarting
    \/ QuietSucceeding
    \/ QuietFailing

SpecQuiet == Init /\ [][NextQuiet]_vars

(***************************************************************************)
(* The comparison subsystem alone.                                         *)
(***************************************************************************)
NextCompare ==
    \/ toggleComparisonMode
    \/ \E l \in LayerIds : addLayerForComparison(l)
    \/ \E l \in LayerIds : removeLayerForComparison(l)
    \/ clearLayersForComparison
    \/ compareLayers
    \/ \E c \in BagToSet(inflight), b \in DiffBodies :
           compareLayersResolve(c, b)
    \/ \E c \in BagToSet(inflight), e \in Errors : compareLayersReject(c, e)

SpecCompare == Init /\ [][NextCompare]_vars

\* The selection alone: no compare_layers call is answered
NextSelection ==
    \/ toggleComparisonMode
    \/ \E l \in LayerIds : addLayerForComparison(l)
    \/ \E l \in LayerIds : removeLayerForComparison(l)
    \/ clearLayersForComparison
    \/ compareLayers

SpecSelection == Init /\ [][NextSelection]_vars

\* Comparisons and their answers, in comparison mode or not
NextOutcome ==
    \/ \E l \in LayerIds : addLayerForComparison(l)
    \/ clearLayersForComparison
    \/ compareLayers
    \/ \E c \in BagToSet(inflight), b \in DiffBodies :
           compareLayersResolve(c, b)
    \/ \E c \in BagToSet(inflight), e \in Errors : compareLayersReject(c, e)

SpecOutcome == Init /\ [][NextOutcome]_vars

\* The comparison as the sidebar offers it: layers are picked and compared
\* in comparison mode only, the answers come whenever they come
NextMode ==
    \/ toggleComparisonMode
    \/ isComparisonMode /\ \E l \in LayerIds : handleSelectLayer(l)
    \/ isComparisonMode /\ handleCompareLayers
    \/ \E c \in Pending("compare_layers"), b \in DiffBodies :
           compareLayersResolve(c, b)
    \/ \E c \in Pending("compare_layers"), e \in Errors :
           compareLayersReject(c, e)

SpecMode == Init /\ [][NextMode]_vars

\* C1: in every state reachable by add / remove / clear / toggle / compare
\* calls, the comparison selection holds at most 2 layer identifiers.
C1_SelectionAtMostTwo == Len(selectedLayersForComparison) <= 2

\* C1 witness: a layer not yet selected has just been added to a selection
\* that already held 2, and the selection still holds 2.
C1_Witness ==
    /\ last.op = "addLayerForComparison"
    /\ last.arg.had = 2
    /\ ~last.arg.dup
    /\ Len(selectedLayersForComparison) = 2

\* C2: adding a third identifier c to the selection [a, b] leaves [b, c]:
\* the entry at index 0 is evicted and c is appended last.
C2_ThirdEvictsOldest ==
    [][ (/\ last'.op = "addLayerForComparison"
         /\ Len(selectedLayersForComparison) = 2
         /\ ~Includes(selectedLayersForComparison, last'.arg.layerId))
        => selectedLayersForComparison' =
               <<selectedLayersForComparison[2], last'.arg.layerId>> ]_vars

\* C2 witness: comparison mode entered, layer_1, layer_2, layer_3 selected in
\* that order (the last one onto a full selection): [layer_2, layer_3].
C2_Witness ==
    /\ isComparisonMode
    /\ last.op = "addLayerForComparison"
    /\ last.arg = [layerId |-> LayerId(3), had |-> 2, dup |-> FALSE]
    /\ selectedLayersForComparison = <<LayerId(2), LayerId(3)>>

\* C3: compareLayers with a selection of other than 2 identifiers makes no
\* compare_layers call, leaves taskStatus and comparisonResult unchanged and
\* sets the validation error; with exactly 2 it makes exactly one
\* compare_layers call, for selection[0] and selection[1].
C3_CompareNeedsExactlyTwo ==
    [][ last'.op = "compareLayers" =>
        IF Len(selectedLayersForComparison) # 2
        THEN /\ inflight' = inflight
             /\ taskStatus' = taskStatus
             /\ comparisonResult' = comparisonResult
             /\ error' = ValidationError
        ELSE inflight' = inflight (+) SetToBag({
                 [cmd |-> "compare_layers",
                  layer1Id |-> selectedLayersForComparison[1],
                  layer2Id |-> selectedLayersForComparison[2],
                  viaHandler |-> FALSE]}) ]_vars

\* C3 witness: compareLayers has just been rejected with one layer selected,
\* after an earlier compareLayers of two layers was answered.
C3_Witness ==
    /\ last.op = "compareLayers"
    /\ Len(selectedLayersForComparison) = 1
    /\ error = ValidationError
    /\ comparisonResult # NullObj
    /\ inflight = EmptyBag

(***************************************************************************)
(* Claims about layer selection and directory extraction.                  *)
(***************************************************************************)
\* C4: when the export_single_layer answer for a layer arrives after the
\* user has switched to another layer (selectedLayerNumber is the number of
\* the layer selected last), the answer is discarded: selectedLayerFiles,
\* selectedLayerId, isLoading and taskStatus stay as they are.
C4_StaleExportDiscarded ==
    [][(/\ last'.op = "exportSingleLayerResolve"
        /\ LayerNumber(last'.arg) # selectedLayerNumber)
       => /\ selectedLayerFiles' = selectedLayerFiles
          /\ selectedLayerId' = selectedLayerId
          /\ isLoading' = isLoading
          /\ taskStatus' = taskStatus]_vars

\* C5: selectedLayerFiles never holds two entries with the same path.
C5_NoDuplicatePaths ==
    \A i, j \in 1..Len(selectedLayerFiles) :
        i # j => selectedLayerFiles[i].path # selectedLayerFiles[j].path

\* C6: a successful extractDirectory(p) leaves exactly the entries held just
\* before the merge that are not strictly under p (p itself and siblings
\* such as p + "b" included) plus exactly the entries the backend returned.
C6_MergeKeepsAllOutside ==
    [][last'.op = "extractDirectoryResolve"
       => LET p == last'.arg.dirPath
              kept == SelectSeq(selectedLayerFiles,
                          LAMBDA f : ~StartsWith(f.path, p \o <<"/">>))
              want == kept \o last'.arg.files
              got == selectedLayerFiles'
          IN  /\ Len(got) = Len(want)
              /\ \A e \in Range(want) \cup Range(got) :
                    Cardinality({i \in DOMAIN got : got[i] = e})
                  = Cardinality({i \in DOMAIN want : want[i] = e})]_vars

\* C7: when the backend call of extractDirectory(p) finishes, with an answer
\* or with an error, p is no longer in loadingDirectories.
C7_LoadingClearedOnFinish ==
    last.op \in {"extractDirectoryResolve", "extractDirectoryReject"}
        => last.arg.dirPath \notin loadingDirectories
\* a failed call for /a has left loadingDirectories while /c still loads
C7_Witness ==
    /\ last.op = "extractDirectoryReject"
    /\ last.arg.dirPath = PathA
    /\ loadingDirectories = {PathC}
    /\ error # Null

C9_SelectImageClearsSession ==
    [][(/\ last'.op = "selectImageAndProcessLayers"
        /\ last'.arg # Null)
       => /\ selectedLayerId' = NullId
          /\ selectedLayerNumber' = NullNum
          /\ selectedLayerFiles' = <<>>
          /\ selectedFile' = NullObj
          /\ selectedFileContent' = <<>>
          /\ selectedLayersForComparison' = <<>>
          /\ comparisonResult' = NullObj]_vars

\* C10: when export_image_layers answers with an image that has a layer,
\* the image is stored, its first layer becomes the current layer and an
\* export_single_layer call for that layer is in flight.
C10_FirstLayerAutoSelected ==
    [][(/\ last'.op = "exportImageLayersResolve"
        /\ Len(last'.arg.layers) > 0)
       => /\ dockerImage' = last'.arg
          /\ selectedLayerId' = last'.arg.layers[1]
          /\ \E c \in BagToSet(inflight') :
                /\ c.cmd = "export_single_layer"
                /\ c.layerId = last'.arg.layers[1]]_vars

(***************************************************************************)
(* Claims about file content.                                              *)
(***************************************************************************)
\* C13 as stated: when read_layer_file fails with "File is too large to
\* display", selectedFileContent is exactly that string and
\* isLoadingFileContent is false.
C13_ContentIsExactlyTheError ==
    [][(/\ last'.op = "loadFileContentReject"
        /\ last'.arg.error = TooLarge)
       => /\ selectedFileContent' = Text("File is too large to display")
          /\ ~isLoadingFileContent']_vars
\* C13 amended: when read_layer_file fails with "File is too large to
\* display", selectedFileContent is "Error reading file: " followed by that
\* string, so it contains the string, and isLoadingFileContent is false.
C13_ContentContainsTheError ==
    [][(/\ last'.op = "loadFileContentReject"
        /\ last'.arg.error = TooLarge)
       => /\ selectedFileContent' =
                <<"Error reading file: ", "File is too large to display">>
          /\ Contains(selectedFileContent', "File is too large to display")
          /\ ~isLoadingFileContent']_vars
\* the read of /ab has failed with "File is too large to display"
C13_Witness ==
    /\ last.op = "loadFileContentReject"
    /\ last.arg.filePath = PathAB
    /\ last.arg.error = TooLarge
    /\ Contains(selectedFileContent, "File is too large to display")
    /\ error = "File is too large to display"

\* C14: when loadFileContent fails, selectedFileContent is the placeholder
\* "Error reading file: <error>", whatever it held before, and
\* isLoadingFileContent is false.
C14_FailureStoresPlaceholder ==
    [][last'.op = "loadFileContentReject"
       => /\ Len(selectedFileContent') = 2
          /\ selectedFileContent'[1] = "Error reading file: "
          /\ selectedFileContent'[2] = last'.arg.error.text
          /\ ~isLoadingFileContent']_vars
\* earlier content was on display when the read of /a/b failed
C14_Witness ==
    /\ last.op = "loadFileContentReject"
    /\ last.arg.hadContent
    /\ last.arg.filePath = Child(PathA, "b")
    /\ last.arg.error = OtherError
    /\ selectedFileContent = <<"Error reading file: ", "[object Object]">>
    /\ error = "Failed to read file content"
    /\ ~isLoadingFileContent

\* C15: whenever a file is selected and content is on display, the content
\* is the text of the selected file or an error placeholder.
C15_ContentBelongsToSelectedFile ==
    (selectedFile # NullObj /\ selectedFileContent # EmptyText)
        => \/ /\ ~selectedFile.is_dir
              /\ selectedFileContent = Text(FileText(selectedFile.path))
           \/ selectedFileContent[1] = "Error reading file: "

(***************************************************************************)
(* Claims about failures of image selection and the task_status listener.  *)
(***************************************************************************)
\* C11: when selectImageAndProcessLayers fails at the retag step or at the
\* export step, error is non-null, taskStatus is complete with a non-null
\* error, isLoading is false and dockerImage is not touched.
C11_ImageFailureLeavesNoImage ==
    [][last'.op \in {"retagImageReject", "exportImageLayersReject"}
       => /\ error' # Null
          /\ taskStatus'.isComplete
          /\ taskStatus'.error # Null
          /\ ~isLoading'
          /\ dockerImage' = dockerImage]_vars
\* the export of img-2 has failed while the image img-1 is stored
C11_Witness ==
    /\ last = [op |-> "exportImageLayersReject", arg |-> "img-2"]
    /\ dockerImage # NullObj
    /\ dockerImage.id = "img-1"
    /\ selectedImageId = "img-2"
    /\ taskStatus.message = "Error exporting image layers"
    /\ error = "Failed to export image layers"

\* C12: every registered task_status listener belongs to an image selection
\* whose export_image_layers call has not finished yet: the listener is
\* removed once the export has succeeded or failed.
C12_ListenerRemovedOnCompletion ==
    listeners <= NumPending("export_image_layers")

(***************************************************************************)
(* Claims about the comparison state.                                      *)
(***************************************************************************)
\* C16: right after toggleComparisonMode, entering or exiting, the
\* comparison selection is empty and the comparison result is null.
C16_ToggleClearsBothWays ==
    [][last'.op = "toggleComparisonMode"
       => /\ selectedLayersForComparison' = <<>>
          /\ comparisonResult' = NullObj]_vars

\* C17: a non-null comparisonResult is the result for the pair of layers
\* selected now.
C17_ResultBelongsToSelection ==
    comparisonResult # NullObj
        => comparisonResult.pair = selectedLayersForComparison

\* C18: when compare_layers succeeds, comparisonResult is the returned
\* four-way result; when it fails, comparisonResult is what it was, error
\* is set and isComparing is false.
C18_CompareOutcome ==
    [][/\ last'.op = "compareLayersResolve"
          => /\ comparisonResult' # NullObj
             /\ comparisonResult'.added = last'.arg.added
             /\ comparisonResult'.removed = last'.arg.removed
             /\ comparisonResult'.modified = last'.arg.modified
             /\ comparisonResult'.unchanged = last'.arg.unchanged
       /\ last'.op = "compareLayersReject"
          => /\ comparisonResult' = comparisonResult
             /\ error' # Null
             /\ ~isComparing']_vars
\* a second comparison has failed and the result of the first is kept
C18_Witness ==
    /\ last.op = "compareLayersReject"
    /\ comparisonResult # NullObj
    /\ comparisonResult.added = <<"/app/main">>
    /\ error = "Failed to compare layers"
    /\ ~isComparing

(***************************************************************************)
(* Claims about failed backend calls.                                      *)
(***************************************************************************)
\* C19: when export_single_layer, get_layer_files or extract_directory
\* fails, selectedLayerFiles and dockerImage are what they were.
C19_FailureKeepsLoadedData ==
    [][last'.op \in {"exportSingleLayerReject", "getLayerFilesReject",
                     "extractDirectoryReject"}
       => /\ selectedLayerFiles' = selectedLayerFiles
          /\ dockerImage' = dockerImage]_vars

\* C20: a failed backend call (retag, image export, single-layer export,
\* get layer files, extract directory) leaves error non-null and taskStatus
\* complete with a non-null error.
C20_FailureReflectedInTaskStatus ==
    [][last'.op \in {"retagImageReject", "exportImageLayersReject",
                     "exportSingleLayerReject", "getLayerFilesReject",
                     "extractDirectoryReject"}
       => /\ error' # Null
          /\ taskStatus' # NullObj
          /\ taskStatus'.isComplete
          /\ taskStatus'.error # Null]_vars

(***************************************************************************)
(* Claims about selecting a layer in the sidebar.                          *)
(***************************************************************************)
\* C21: selecting a layer in comparison mode changes the comparison
\* selection only (current layer unchanged, no backend call); in normal mode
\* it sets the current layer and issues export_single_layer and leaves the
\* comparison selection alone.
C21_SelectDoesOneOfTwo ==
    [][last'.op = "handleSelectLayer"
       => IF last'.arg.compare
          THEN /\ selectedLayersForComparison' # selectedLayersForComparison
               /\ selectedLayerId' = selectedLayerId
               /\ selectedLayerNumber' = selectedLayerNumber
               /\ inflight' = inflight
          ELSE /\ selectedLayersForComparison' = selectedLayersForComparison
               /\ selectedLayerId' = last'.arg.layerId
               /\ inflight' = inflight (+) SetToBag({
                      [cmd |-> "export_single_layer",
                       layerId |-> last'.arg.layerId]})]_vars
\* a layer was picked for comparison while another layer is the current one
C21_Witness ==
    /\ last.op = "handleSelectLayer"
    /\ last.arg.compare
    /\ last.arg.layerId = LayerId(2)
    /\ selectedLayersForComparison = <<LayerId(2)>>
    /\ selectedLayerNumber = 1
    /\ inflight = EmptyBag

\* C22: a get_layer_files call is issued only by the step in which
\* export_single_layer has returned successfully.
C22_ListingOnlyAfterExport ==
    [][NumPending("get_layer_files") <
          BagCardinality([c \in {x \in BagToSet(inflight') :
                                     x.cmd = "get_layer_files"}
                          |-> inflight'[c]])
       => last'.op = "exportSingleLayerResolve"]_vars

\* C23: selecting layer L in normal mode sets the current layer to L and
\* empties selectedLayerFiles and selectedFileContent at once.
C23_SelectClearsPreviousLayer ==
    [][(last'.op = "handleSelectLayer" /\ ~last'.arg.compare)
       => /\ selectedLayerId' = last'.arg.layerId
          /\ selectedLayerFiles' = <<>>
          /\ selectedFileContent' = EmptyText]_vars

\* C27: in comparison mode, selecting a layer that is in the selection
\* removes exactly it and keeps the other; selecting a layer that is not in
\* it while fewer than two are selected appends it.
C27_ToggleSelection ==
    [][(last'.op = "handleSelectLayer" /\ last'.arg.compare)
       => LET sel == selectedLayersForComparison
              l == last'.arg.layerId
          IN  /\ Includes(sel, l)
                 => /\ Len(selectedLayersForComparison') = Len(sel) - 1
                    /\ ~Includes(selectedLayersForComparison', l)
                    /\ \A i \in 1..Len(sel) :
                         sel[i] # l
                           => Includes(selectedLayersForComparison', sel[i])
              /\ (~Includes(sel, l) /\ Len(sel) < 2)
                 => selectedLayersForComparison' = Append(sel, l)]_vars
\* the first of two selected layers was clicked again and the second is kept
C27_Witness ==
    /\ last.op = "handleSelectLayer"
    /\ last.arg.compare
    /\ last.arg.layerId = LayerId(1)
    /\ selectedLayersForComparison = <<LayerId(2)>>
    /\ isComparisonMode

(***************************************************************************)
(* Further claims about file content, task status and image selection.     *)
(***************************************************************************)
\* C26: loadFileContent with a directory entry makes no backend call and
\* leaves selectedFileContent, isLoadingFileContent and error as they are.
C26_DirectoryLoadIsNoOp ==
    [][(/\ last'.op = "loadFileContent"
        /\ last'.arg # NullObj
        /\ last'.arg.is_dir)
       => /\ inflight' = inflight
          /\ selectedFileContent' = selectedFileContent
          /\ isLoadingFileContent' = isLoadingFileContent
          /\ error' = error]_vars
\* loadFileContent was called with the directory /a while the text of /ab
\* is on display
C26_Witness ==
    /\ last.op = "loadFileContent"
    /\ last.arg = DirItem(PathA, LayerId(1))
    /\ selectedFileContent = Text("text of /ab")
    /\ ~isLoadingFileContent
    /\ inflight = EmptyBag

\* C28: once taskStatus is complete it is not modified until the next
\* operation (an image selection) starts.
C28_CompletionIsTerminal ==
    [][(/\ taskStatus # NullObj
        /\ taskStatus.isComplete
        /\ last'.op # "selectImageAndProcessLayers")
       => taskStatus' = taskStatus]_vars

\* C29: export_image_layers is invoked only by the step that follows the
\* registration of the listener, which is started only by a successful
\* retag; a failed retag starts nothing and registers no listener.
C29_ExportOnlyAfterRetag ==
    [][LET Calls(bag, cmd) ==
               BagCardinality([c \in {x \in BagToSet(bag) : x.cmd = cmd}
                               |-> bag[c]])
       IN  /\ Calls(inflight', "export_image_layers")
                 > Calls(inflight, "export_image_layers")
              => last'.op = "listenResolve"
           /\ Calls(inflight', "listen") > Calls(inflight, "listen")
              => last'.op = "retagImageResolve"
           /\ last'.op = "retagImageReject"
              => /\ Calls(inflight', "listen") = Calls(inflight, "listen")
                 /\ Calls(inflight', "export_image_layers")
                       = Calls(inflight, "export_image_layers")
                 /\ Calls(inflight', "retag_image_for_layers")
                       = Calls(inflight, "retag_image_for_layers") - 1
                 /\ listeners' = listeners]_vars
\* the retag of img-2 has failed after img-1 was processed: nothing pending
C29_Witness ==
    /\ last = [op |-> "retagImageReject", arg |-> "img-2"]
    /\ dockerImage # NullObj
    /\ inflight = EmptyBag
    /\ listeners = 0
    /\ taskStatus.message = "Error tagging image"

C25_BlankShowsAllAndNoMatchShowsNone ==
    [][last'.op = "searchEffect" =>
         LET RECURSIVE NoneContains(_, _)
             NoneContains(nodes, query) ==
                 \A i \in 1..Len(nodes) :
                     /\ ~IncludesText(ToLower(nodes[i].name), ToLower(query))
                     /\ ~IncludesText(ToLower(nodes[i].path), ToLower(query))
                     /\ NoneContains(nodes[i].children, query)
         IN  /\ Trim(searchQuery) = <<>> => filteredFileTree' = fileTree
             /\ NoneContains(fileTree, searchQuery)
                => filteredFileTree' = <<>>]_vars
\* C25, amended: a search with an empty or whitespace-only query shows the
\* forest that was built, and a search with a query that is not
\* whitespace-only and that no node's name or path contains, whatever the
\* case of the letters, shows an empty forest.
C25_BlankShowsAllAndOtherNoMatchShowsNone ==
    [][last'.op = "searchEffect" =>
         LET RECURSIVE NoneContains(_, _)
             NoneContains(nodes, query) ==
                 \A i \in 1..Len(nodes) :
                     /\ ~IncludesText(ToLower(nodes[i].name), ToLower(query))
                     /\ ~IncludesText(ToLower(nodes[i].path), ToLower(query))
                     /\ NoneContains(nodes[i].children, query)
         IN  /\ Trim(searchQuery) = <<>> => filteredFileTree' = fileTree
             /\ Trim(searchQuery) # <<>> /\ NoneContains(fileTree, searchQuery)
                => filteredFileTree' = <<>>]_vars
\* the query "cb" was searched in a built forest of two levels, and nothing
\* is shown
C25_Witness ==
    /\ last.op = "searchEffect"
    /\ searchQuery = <<"c", "b">>
    /\ Len(fileTree) = 2
    /\ Len(fileTree[1].children) = 2
    /\ filteredFileTree = <<>>

(***************************************************************************)
(* Claims about overlapping operations and the session as a whole.         *)
(***************************************************************************)
\* C39: the comparison selection never holds the same layer identifier
\* twice, and no compare_layers call is made for a layer and itself.
C39_SelectionHasNoDuplicate ==
    /\ \A i, j \in 1..Len(selectedLayersForComparison) :
           selectedLayersForComparison[i] = selectedLayersForComparison[j]
               => i = j
    /\ \A c \in Pending("compare_layers") : c.layer1Id # c.layer2Id
\* a layer of a full selection has been added again while a comparison was
\* under way, and the selection is what it was
C39_Witness ==
    /\ last.op = "addLayerForComparison"
    /\ last.arg.dup
    /\ last.arg.had = 2
    /\ Len(selectedLayersForComparison) = 2
    /\ Pending("compare_layers") # {}

\* C37: whenever comparison mode is off, the selection is empty and
\* comparisonResult is null, also when compare_layers answers after the
\* mode was left.
C37_NoComparisonStateOutsideMode ==
    ~isComparisonMode
        => /\ selectedLayersForComparison = <<>>
           /\ comparisonResult = NullObj

\* C33: once exportSingleLayer(L) and the get_layer_files call that follows
\* it have both succeeded and nothing is pending, selectedLayerId is L and
\* selectedLayerNumber is the number in L.
C33_SelectedLayerIsTheExportedOne ==
    (/\ last.op = "getLayerFilesResolve"
     /\ last.arg # NullId
     /\ inflight = EmptyBag)
        => /\ selectedLayerId = last.arg
           /\ selectedLayerNumber = LayerNumber(last.arg)

\* C34: when two extractions of unrelated directories overlap and both
\* succeed, one answer right after the other, selectedLayerFiles holds the
\* entries returned for the one and the entries returned for the other.
C34_OverlappingExtractionsBothKept ==
    [][(/\ last.op = "extractDirectoryResolve"
        /\ last'.op = "extractDirectoryResolve"
        /\ ~StartsWith(last.arg.dirPath, last'.arg.dirPath)
        /\ ~StartsWith(last'.arg.dirPath, last.arg.dirPath))
       => \A f \in Range(last.arg.files) \cup Range(last'.arg.files) :
              Includes(selectedLayerFiles', f)]_vars

\* C35: an extract_directory answer that arrives when the entry list has
\* been replaced by that of a newer layer selection (it holds entries of the
\* layer the backend has now, and no others) does not write entries of the
\* old layer into selectedLayerFiles.
C35_LateExtractionKeepsNewerList ==
    [][(/\ last'.op = "extractDirectoryResolve"
        /\ selectedLayerFiles # <<>>
        /\ \A f \in Range(selectedLayerFiles) : f.layer = backendLayer
        /\ \E c \in Pending("extract_directory") :
              /\ inflight' = Answered(c)
              /\ \E f \in Range(c.snapshot) : f.layer # backendLayer)
       => \A f \in Range(selectedLayerFiles') : f.layer = backendLayer]_vars

\* C36: when selections of two images overlap, an export_image_layers
\* answer installs the image of the selection made last only: the dockerImage
\* it stores is that of selectedImageId.
C36_LateImageAnswerNotInstalled ==
    [][last'.op = "exportImageLayersResolve"
       => dockerImage'.id = selectedImageId']_vars

\* C38: every operation ends when its backend calls are answered: whenever
\* no backend call is pending, isLoading, isLoadingImages,
\* isLoadingLayerFiles, isLoadingFileContent and isComparing are false and
\* loadingDirectories is empty, whatever was started and however the
\* answers were interleaved.
C38_QuiescentWhenAllAnswered ==
    inflight = EmptyBag
        => /\ ~isLoading
           /\ ~isLoadingImages
           /\ ~isLoadingLayerFiles
           /\ ~isLoadingFileContent
           /\ ~isComparing
           /\ loadingDirectories = {}

C38_Witness ==
    /\ inflight = EmptyBag
    /\ last.op = "extractDirectoryReject"
    /\ error # Null
    /\ dockerImage # NullObj
    /\ comparisonResult # NullObj
    /\ selectedFileContent # EmptyText

(***************************************************************************)
(* Claims about the nodes of the file tree.                                *)
(***************************************************************************)
\* C31: buildFileTree makes exactly one node for each logical path prefix
\* (no two nodes of the tree share an id), and the kind of a node follows
\* its entry wherever the entry stands in the listing: a node whose logical
\* path is that of an entry of the listing is a directory when the entry
\* has is_dir = true and a file when it has is_dir = false, and a node with
\* no entry of its own (a synthesized prefix) is a directory.
C31_OneNodePerPrefixOfItsEntrysKind ==
    LET RECURSIVE Flat(_)
        Flat(nodes) ==
            IF nodes = <<>> THEN <<>>
            ELSE <<Head(nodes)>> \o Flat(Head(nodes).children)
                     \o Flat(Tail(nodes))
        all == Flat(fileTree)
        Logical(path) == JoinParts(RelativePath(SplitPath(path)))
        EntriesOf(node) ==
            { f \in Range(builtFiles) : Logical(f.path) = node.id }
    IN  builtFiles # <<>>
            => /\ \A i, j \in 1..Len(all) : all[i].id = all[j].id => i = j
               /\ \A i \in 1..Len(all) :
                      IF EntriesOf(all[i]) = {}
                      THEN all[i].type = "directory"
                      ELSE \A f \in EntriesOf(all[i]) :
                               (all[i].type = "directory") = f.is_dir

\* C40: every node of the tree carries the path of the location it stands
\* for: the logical path of node.path, and of the path of the entry the
\* node references, is the node's own prefix (its id), for directory nodes
\* as for files.
C40_NodePathIsItsOwnLocation ==
    LET RECURSIVE Flat(_)
        Flat(nodes) ==
            IF nodes = <<>> THEN <<>>
            ELSE <<Head(nodes)>> \o Flat(Head(nodes).children)
                     \o Flat(Tail(nodes))
        all == Flat(fileTree)
        Logical(path) == JoinParts(RelativePath(SplitPath(path)))
    IN  builtFiles # <<>>
            => \A i \in 1..Len(all) :
                   /\ Logical(all[i].path) = all[i].id
                   /\ Logical(all[i].file.path) = all[i].id

\* C32: once the search effect has run with a query that is not blank,
\* every node of the filtered forest, at any depth, has a name or a path
\* that contains the query (case-insensitively) or is a directory with at
\* least one kept child, and a directory kept for its descendants only has
\* isExpanded = true.
C32_FilteredForestHoldsOnlyKeptNodes ==
    LET Matches(node) ==
            \/ IncludesText(ToLower(node.name), ToLower(searchQuery))
            \/ IncludesText(ToLower(node.path), ToLower(searchQuery))
        IsDirectory(node) ==
            node.type = "directory" \/ Len(node.children) > 0
        RECURSIVE Kept(_)
        Kept(nodes) ==
            \A i \in 1..Len(nodes) :
                /\ \/ Matches(nodes[i])
                   \/ IsDirectory(nodes[i]) /\ Len(nodes[i].children) > 0
                /\ ~Matches(nodes[i]) => nodes[i].isExpanded
                /\ Kept(nodes[i].children)
    IN  (last.op = "searchEffect" /\ Trim(searchQuery) # <<>>)
            => Kept(filteredFileTree)

====
